---- MODULE Spec2Model ----
(***************************************************************************)
(* syhlion/sqlwrapper: a decorator over database/sql that times every      *)
(* forwarded call and writes a log record for it.                          *)
(*                                                                         *)
(* The repository holds two variants of package sqlwrapper:                *)
(*   src/db.go            DB/Tx/Stmt with a debug flag and a slow          *)
(*                        threshold, logging through logrus;               *)
(*   src/unnamed/part_001 DB/Tx/Stmt with a debug flag only, logging       *)
(*                        through a *log.Logger held by each wrapper.      *)
(* A behaviour is the call sequence of one program built from one of the   *)
(* two files.  Every action is one exported method, taken as a whole: the  *)
(* call to the underlying database/sql object, the deferred closure, the   *)
(* return.  The underlying client is an opaque collaborator: what it       *)
(* returns and how long it takes are inputs of the action.                 *)
(***************************************************************************)
EXTENDS Integers, Sequences, FiniteSets, TLC

VARIABLES
    variant,  \* the source file the program is built from
    ip,       \* db.go: package variable ip, set once by init()
    d,        \* the *DB returned by WrapperDB
    txs,      \* the *Tx wrappers DB.Begin has returned, in creation order
    stmts,    \* the *Stmt wrappers Prepare has returned, in creation order
    done,     \* underlying client: the sql.Tx that saw Commit or Rollback
    closes,   \* underlying client: how often sql.DB.Close was called
    op,       \* the wrapper method the caller called last, with its arguments
    events,   \* what that method did, in order: underlying calls and log records
    ret,      \* what that method returned to the caller
    elapsed   \* the time the underlying call of that method took

vars == <<variant, ip, d, txs, stmts, done, closes, op, events, ret, elapsed>>

heap == <<variant, ip, d, txs, stmts>>

-----------------------------------------------------------------------------
(* Bounds of the model. *)

\* The longest time (in nanoseconds) an underlying call takes.
MaxElapsed == 1

\* The number of Tx and Stmt wrappers a behaviour creates.
MaxObj == 2

\* How often the caller closes the pool.
MaxClose == 2

Durations == 0 .. MaxElapsed

\* Thresholds below, within and above every elapsed time.
Slows == 0 .. (MaxElapsed + 1)

Queries == {"SELECT 1", "SELECT 2"}

ArgLists == {<< >>, <<7>>}

IPs == {"", "10.0.0.7"}

Variants == {"db.go", "part_001"}

-----------------------------------------------------------------------------
(* Values. *)

NilV == "nil"

\* The *sql.DB the caller hands to WrapperDB.
Pool == "sql.DB"

\* The i-th *sql.Tx the pool returned.
USqlTx(i) == "sql.Tx#" \o ToString(i)

\* The *sql.Stmt of the k-th successful prepare, of query text query.
USqlStmt(k, query) == [prep |-> k, query |-> query, boundTo |-> NilV]

\* sql.Tx.Stmt(h): the transaction-specific *sql.Stmt that utx makes from h.
\* database/sql uses h as the parent when h is a pool statement and
\* re-prepares h's query on utx otherwise; either way the new statement is that
\* of h's query on utx.
USqlTxStmt(utx, h) == [prep |-> h.prep, query |-> h.query, boundTo |-> utx]

\* A pointer to a wrapper object.
PtrDB == [kind |-> "db", id |-> 0]
PtrTx(i) == [kind |-> "tx", id |-> i]
PtrStmt(k) == [kind |-> "stmt", id |-> k]

\* What the underlying client may return.
ResultOuts == {<<"result", NilV>>, <<NilV, "err">>}
RowsOuts == {<<"rows", NilV>>, <<NilV, "err">>}
RowOuts == {"row", "row(err)"}
ErrOuts == {NilV, "err"}

\* time.Duration.String() for durations below a microsecond.
DurationString(n) == IF n = 0 THEN "0s" ELSE ToString(n) \o "ns"

-----------------------------------------------------------------------------
(* Events of one method call. *)

CallQ(target, name, query, args, out) ==
    [ev |-> "call", target |-> target, name |-> name,
     query |-> query, args |-> args, out |-> out]

CallA(target, name, args, out) ==
    [ev |-> "call", target |-> target, name |-> name, args |-> args, out |-> out]

CallP(target, name, query, out) ==
    [ev |-> "call", target |-> target, name |-> name, query |-> query, out |-> out]

Call0(target, name, out) ==
    [ev |-> "call", target |-> target, name |-> name, out |-> out]

\* (*log.Logger).Println(v...): one line on the logger, the values in order.
Println(logger, line) == [ev |-> "log", logger |-> logger, line |-> line]

\* log.WithFields(fields).Debug(msg); the level is Debug, so it is written.
Logrus(fields, msg) == [ev |-> "log", fields |-> fields, msg |-> msg]

\* The caller's call and what came of it.
Did(o, evs, r, dt) ==
    /\ op' = o
    /\ events' = evs
    /\ ret' = r
    /\ elapsed' = dt

Room == Len(txs) + Len(stmts) < MaxObj

\* The caller is sequential: it calls a method once it has taken the result of
\* the one before.
Idle == [recv |-> NilV, name |-> "idle"]

Calling(v) == variant = v /\ op = Idle

-----------------------------------------------------------------------------
(* src/db.go *)

WrapperDB(db, debug, slow) == [db |-> db, slow |-> slow, debug |-> debug]

QueryFields(total, query, args) ==
    ("use-time" :> DurationString(total)) @@ ("ip" :> ip) @@ ("sql" :> query)
        @@ ("args" :> args) @@ ("name" :> "syhlion/sqlwrapper")

\* Mutant of BoundaryFields: the message is also put in the sql field.
BoundaryFields_WithSql(total) ==
    ("use-time" :> DurationString(total)) @@ ("ip" :> ip) @@ ("sql" :> "tx")
        @@ ("name" :> "syhlion/sqlwrapper")

BoundaryFields(total) ==
    ("use-time" :> DurationString(total)) @@ ("ip" :> ip)
        @@ ("name" :> "syhlion/sqlwrapper")

\* Mutant of Tx_Commit: the threshold test is strict.
Tx_Commit_Strict ==
    /\ Calling("db.go")
    /\ \E i \in 1 .. Len(txs), dt \in Durations, err \in ErrOuts :
         LET t == txs[i]
             total == dt
             deferred == IF t.debug \/ total > t.slow
                         THEN <<Logrus(BoundaryFields(total), "tx commit")>>
                         ELSE << >>
         IN  /\ Did([recv |-> PtrTx(i), name |-> "Commit"],
                    <<Call0(t.tx, "Commit", err)>> \o deferred, err, dt)
             /\ done' = done \cup {t.tx}
    /\ UNCHANGED <<heap, closes>>

Tx_Commit ==
    /\ Calling("db.go")
    /\ \E i \in 1 .. Len(txs), dt \in Durations, err \in ErrOuts :
         LET t == txs[i]
             total == dt
             deferred == IF t.debug \/ total >= t.slow
                         THEN <<Logrus(BoundaryFields(total), "tx commit")>>
                         ELSE << >>
         IN  /\ Did([recv |-> PtrTx(i), name |-> "Commit"],
                    <<Call0(t.tx, "Commit", err)>> \o deferred, err, dt)
             /\ done' = done \cup {t.tx}
    /\ UNCHANGED <<heap, closes>>

\* Mutant of Tx_Exec: a failed call is tried once more.
Tx_Exec_Retry ==
    /\ Calling("db.go")
    /\ \E i \in 1 .. Len(txs), query \in Queries, args \in ArgLists,
          dt \in Durations, out \in ResultOuts, again \in ResultOuts :
         LET t == txs[i]
             total == dt
             deferred == IF t.debug \/ total >= t.slow
                         THEN <<Logrus(QueryFields(total, query, args), "tx exec")>>
                         ELSE << >>
             first == CallQ(t.tx, "Exec", query, args, out)
             o == [recv |-> PtrTx(i), name |-> "Exec", query |-> query, args |-> args]
         IN  IF out[2] # NilV
             THEN Did(o, <<first, CallQ(t.tx, "Exec", query, args, again)>> \o deferred,
                      again, dt)
             ELSE /\ again = out
                  /\ Did(o, <<first>> \o deferred, out, dt)
    /\ UNCHANGED <<heap, done, closes>>

Tx_Exec ==
    /\ Calling("db.go")
    /\ \E i \in 1 .. Len(txs), query \in Queries, args \in ArgLists,
          dt \in Durations, out \in ResultOuts :
         LET t == txs[i]
             total == dt
             deferred == IF t.debug \/ total >= t.slow
                         THEN <<Logrus(QueryFields(total, query, args), "tx exec")>>
                         ELSE << >>
         IN  Did([recv |-> PtrTx(i), name |-> "Exec", query |-> query, args |-> args],
                 <<CallQ(t.tx, "Exec", query, args, out)>> \o deferred, out, dt)
    /\ UNCHANGED <<heap, done, closes>>

\* Mutant of Tx_Prepare: the literal leaves the prepare field out.
Tx_Prepare_NoText ==
    /\ Calling("db.go")
    /\ \E i \in 1 .. Len(txs), query \in Queries, dt \in Durations, ok \in BOOLEAN :
         LET t == txs[i]
             k == Len(stmts) + 1
             s == IF ok THEN USqlStmt(k, query) ELSE NilV
             err == IF ok THEN NilV ELSE "err"
             call == CallP(t.tx, "Prepare", query, <<s, err>>)
             o == [recv |-> PtrTx(i), name |-> "Prepare", query |-> query]
         IN  /\ ok => Room
             /\ IF err # NilV
                THEN /\ Did(o, <<call>>, <<NilV, err>>, dt)
                     /\ stmts' = stmts
                ELSE /\ stmts' = Append(stmts, [stmt |-> s, debug |-> t.debug,
                                                prepare |-> "", slow |-> t.slow])
                     /\ Did(o, <<call>>, <<PtrStmt(k), NilV>>, dt)
    /\ UNCHANGED <<variant, ip, d, txs, done, closes>>

Tx_Prepare ==
    /\ Calling("db.go")
    /\ \E i \in 1 .. Len(txs), query \in Queries, dt \in Durations, ok \in BOOLEAN :
         LET t == txs[i]
             k == Len(stmts) + 1
             s == IF ok THEN USqlStmt(k, query) ELSE NilV
             err == IF ok THEN NilV ELSE "err"
             call == CallP(t.tx, "Prepare", query, <<s, err>>)
             o == [recv |-> PtrTx(i), name |-> "Prepare", query |-> query]
         IN  /\ ok => Room
             /\ IF err # NilV
                THEN /\ Did(o, <<call>>, <<NilV, err>>, dt)
                     /\ stmts' = stmts
                ELSE /\ stmts' = Append(stmts, [stmt |-> s, debug |-> t.debug,
                                                prepare |-> query, slow |-> t.slow])
                     /\ Did(o, <<call>>, <<PtrStmt(k), NilV>>, dt)
    /\ UNCHANGED <<variant, ip, d, txs, done, closes>>

Tx_Rollback ==
    /\ Calling("db.go")
    /\ \E i \in 1 .. Len(txs), dt \in Durations, err \in ErrOuts :
         LET t == txs[i]
             total == dt
             deferred == IF t.debug \/ total >= t.slow
                         THEN <<Logrus(BoundaryFields(total), "tx rollback")>>
                         ELSE << >>
         IN  /\ Did([recv |-> PtrTx(i), name |-> "Rollback"],
                    <<Call0(t.tx, "Rollback", err)>> \o deferred, err, dt)
             /\ done' = done \cup {t.tx}
    /\ UNCHANGED <<heap, closes>>

\* Mutant of Tx_Stmt: the statement the transaction returned is not stored.
Tx_Stmt_NotStored ==
    /\ Calling("db.go")
    /\ \E i \in 1 .. Len(txs), k \in 1 .. Len(stmts), dt \in Durations :
         LET t == txs[i]
             stmt == stmts[k]
             s == USqlTxStmt(t.tx, stmt.stmt)
         IN  /\ stmts' = stmts
             /\ Did([recv |-> PtrTx(i), name |-> "Stmt", stmt |-> PtrStmt(k)],
                    <<CallA(t.tx, "Stmt", <<stmt.stmt>>, s)>>, PtrStmt(k), dt)
    /\ UNCHANGED <<variant, ip, d, txs, done, closes>>

Tx_Stmt ==
    /\ Calling("db.go")
    /\ \E i \in 1 .. Len(txs), k \in 1 .. Len(stmts), dt \in Durations :
         LET t == txs[i]
             stmt == stmts[k]
             s == USqlTxStmt(t.tx, stmt.stmt)
         IN  /\ stmts' = [stmts EXCEPT ![k].stmt = s]
             /\ Did([recv |-> PtrTx(i), name |-> "Stmt", stmt |-> PtrStmt(k)],
                    <<CallA(t.tx, "Stmt", <<stmt.stmt>>, s)>>, PtrStmt(k), dt)
    /\ UNCHANGED <<variant, ip, d, txs, done, closes>>

Tx_Query ==
    /\ Calling("db.go")
    /\ \E i \in 1 .. Len(txs), query \in Queries, args \in ArgLists,
          dt \in Durations, out \in RowsOuts :
         LET t == txs[i]
             total == dt
             deferred == IF t.debug \/ total >= t.slow
                         THEN <<Logrus(QueryFields(total, query, args), "tx query")>>
                         ELSE << >>
         IN  Did([recv |-> PtrTx(i), name |-> "Query", query |-> query, args |-> args],
                 <<CallQ(t.tx, "Query", query, args, out)>> \o deferred, out, dt)
    /\ UNCHANGED <<heap, done, closes>>

Tx_QueryRow ==
    /\ Calling("db.go")
    /\ \E i \in 1 .. Len(txs), query \in Queries, args \in ArgLists,
          dt \in Durations, out \in RowOuts :
         LET t == txs[i]
             total == dt
             deferred == IF t.debug \/ total >= t.slow
                         THEN <<Logrus(QueryFields(total, query, args), "tx query row")>>
                         ELSE << >>
         IN  Did([recv |-> PtrTx(i), name |-> "QueryRow", query |-> query, args |-> args],
                 <<CallQ(t.tx, "QueryRow", query, args, out)>> \o deferred, out, dt)
    /\ UNCHANGED <<heap, done, closes>>

Stmt_Exec ==
    /\ Calling("db.go")
    /\ \E k \in 1 .. Len(stmts), args \in ArgLists, dt \in Durations,
          out \in ResultOuts :
         LET s == stmts[k]
             total == dt
             deferred == IF s.debug \/ total >= s.slow
                         THEN <<Logrus(QueryFields(total, s.prepare, args),
                                       "stmt query row")>>
                         ELSE << >>
         IN  Did([recv |-> PtrStmt(k), name |-> "Exec", args |-> args],
                 <<CallA(s.stmt, "Exec", args, out)>> \o deferred, out, dt)
    /\ UNCHANGED <<heap, done, closes>>

Stmt_Query ==
    /\ Calling("db.go")
    /\ \E k \in 1 .. Len(stmts), args \in ArgLists, dt \in Durations,
          out \in RowsOuts :
         LET s == stmts[k]
             total == dt
             deferred == IF s.debug \/ total >= s.slow
                         THEN <<Logrus(QueryFields(total, s.prepare, args),
                                       "stmt query")>>
                         ELSE << >>
         IN  Did([recv |-> PtrStmt(k), name |-> "Query", args |-> args],
                 <<CallA(s.stmt, "Query", args, out)>> \o deferred, out, dt)
    /\ UNCHANGED <<heap, done, closes>>

Stmt_QueryRow ==
    /\ Calling("db.go")
    /\ \E k \in 1 .. Len(stmts), args \in ArgLists, dt \in Durations,
          out \in RowOuts :
         LET s == stmts[k]
             total == dt
             deferred == IF s.debug \/ total >= s.slow
                         THEN <<Logrus(QueryFields(total, s.prepare, args),
                                       "stmt query row")>>
                         ELSE << >>
         IN  Did([recv |-> PtrStmt(k), name |-> "QueryRow", args |-> args],
                 <<CallA(s.stmt, "QueryRow", args, out)>> \o deferred, out, dt)
    /\ UNCHANGED <<heap, done, closes>>

Stmt_Close ==
    /\ Calling("db.go")
    /\ \E k \in 1 .. Len(stmts), dt \in Durations, err \in ErrOuts :
         Did([recv |-> PtrStmt(k), name |-> "Close"],
             <<Call0(stmts[k].stmt, "Close", err)>>, err, dt)
    /\ UNCHANGED <<heap, done, closes>>

DB_Exec ==
    /\ Calling("db.go")
    /\ \E query \in Queries, args \in ArgLists, dt \in Durations,
          out \in ResultOuts :
         LET total == dt
             deferred == IF d.debug \/ total >= d.slow
                         THEN <<Logrus(QueryFields(total, query, args), "db exec")>>
                         ELSE << >>
         IN  Did([recv |-> PtrDB, name |-> "Exec", query |-> query, args |-> args],
                 <<CallQ(d.db, "Exec", query, args, out)>> \o deferred, out, dt)
    /\ UNCHANGED <<heap, done, closes>>

\* Mutant of DB_Query: the record is written after the call, on success only,
\* instead of in a deferred closure.
DB_Query_LogOnSuccess ==
    /\ Calling("db.go")
    /\ \E query \in Queries, args \in ArgLists, dt \in Durations,
          out \in RowsOuts :
         LET total == dt
             logged == IF out[2] = NilV /\ (d.debug \/ total >= d.slow)
                       THEN <<Logrus(QueryFields(total, query, args), "db query")>>
                       ELSE << >>
         IN  Did([recv |-> PtrDB, name |-> "Query", query |-> query, args |-> args],
                 <<CallQ(d.db, "Query", query, args, out)>> \o logged, out, dt)
    /\ UNCHANGED <<heap, done, closes>>

DB_Query ==
    /\ Calling("db.go")
    /\ \E query \in Queries, args \in ArgLists, dt \in Durations,
          out \in RowsOuts :
         LET total == dt
             deferred == IF d.debug \/ total >= d.slow
                         THEN <<Logrus(QueryFields(total, query, args), "db query")>>
                         ELSE << >>
         IN  Did([recv |-> PtrDB, name |-> "Query", query |-> query, args |-> args],
                 <<CallQ(d.db, "Query", query, args, out)>> \o deferred, out, dt)
    /\ UNCHANGED <<heap, done, closes>>

DB_QueryRow ==
    /\ Calling("db.go")
    /\ \E query \in Queries, args \in ArgLists, dt \in Durations,
          out \in RowOuts :
         LET total == dt
             deferred == IF d.debug \/ total >= d.slow
                         THEN <<Logrus(QueryFields(total, query, args), "db query row")>>
                         ELSE << >>
         IN  Did([recv |-> PtrDB, name |-> "QueryRow", query |-> query, args |-> args],
                 <<CallQ(d.db, "QueryRow", query, args, out)>> \o deferred, out, dt)
    /\ UNCHANGED <<heap, done, closes>>

\* Mutant of DB_Close: a pool that was closed before is not closed again.
DB_Close_Once ==
    /\ Calling("db.go")
    /\ closes < MaxClose
    /\ \E dt \in Durations, err \in ErrOuts :
         IF closes > 0
         THEN /\ err = NilV
              /\ Did([recv |-> PtrDB, name |-> "Close"], << >>, NilV, dt)
         ELSE Did([recv |-> PtrDB, name |-> "Close"],
                  <<Call0(d.db, "Close", err)>>, err, dt)
    /\ closes' = closes + 1
    /\ UNCHANGED <<heap, done>>

DB_Close ==
    /\ Calling("db.go")
    /\ closes < MaxClose
    /\ \E dt \in Durations, err \in ErrOuts :
         Did([recv |-> PtrDB, name |-> "Close"],
             <<Call0(d.db, "Close", err)>>, err, dt)
    /\ closes' = closes + 1
    /\ UNCHANGED <<heap, done>>

\* Mutant of DB_Begin: Begin is timed and logged like Commit.
DB_Begin_Logged ==
    /\ Calling("db.go")
    /\ \E dt \in Durations, ok \in BOOLEAN :
         LET i == Len(txs) + 1
             tx == IF ok THEN USqlTx(i) ELSE NilV
             err == IF ok THEN NilV ELSE "err"
             call == Call0(d.db, "Begin", <<tx, err>>)
             o == [recv |-> PtrDB, name |-> "Begin"]
             total == dt
             deferred == IF d.debug \/ total >= d.slow
                         THEN <<Logrus(BoundaryFields(total), "db begin")>>
                         ELSE << >>
         IN  /\ ok => Room
             /\ IF err # NilV
                THEN /\ Did(o, <<call>> \o deferred, <<NilV, err>>, dt)
                     /\ txs' = txs
                ELSE /\ txs' = Append(txs, [tx |-> tx, debug |-> d.debug,
                                            slow |-> d.slow])
                     /\ Did(o, <<call>> \o deferred, <<PtrTx(i), err>>, dt)
    /\ UNCHANGED <<variant, ip, d, stmts, done, closes>>

DB_Begin ==
    /\ Calling("db.go")
    /\ \E dt \in Durations, ok \in BOOLEAN :
         LET i == Len(txs) + 1
             tx == IF ok THEN USqlTx(i) ELSE NilV
             err == IF ok THEN NilV ELSE "err"
             call == Call0(d.db, "Begin", <<tx, err>>)
             o == [recv |-> PtrDB, name |-> "Begin"]
         IN  /\ ok => Room
             /\ IF err # NilV
                THEN /\ Did(o, <<call>>, <<NilV, err>>, dt)
                     /\ txs' = txs
                ELSE /\ txs' = Append(txs, [tx |-> tx, debug |-> d.debug,
                                            slow |-> d.slow])
                     /\ Did(o, <<call>>, <<PtrTx(i), err>>, dt)
    /\ UNCHANGED <<variant, ip, d, stmts, done, closes>>

\* Mutant of DB_Prepare: the error is returned together with a wrapper.
DB_Prepare_KeepsWrapper ==
    /\ Calling("db.go")
    /\ Room
    /\ \E query \in Queries, dt \in Durations, ok \in BOOLEAN :
         LET k == Len(stmts) + 1
             s == IF ok THEN USqlStmt(k, query) ELSE NilV
             err == IF ok THEN NilV ELSE "err"
             call == CallP(d.db, "Prepare", query, <<s, err>>)
             o == [recv |-> PtrDB, name |-> "Prepare", query |-> query]
         IN  /\ stmts' = Append(stmts, [stmt |-> s, prepare |-> query,
                                        debug |-> d.debug, slow |-> d.slow])
             /\ Did(o, <<call>>, <<PtrStmt(k), err>>, dt)
    /\ UNCHANGED <<variant, ip, d, txs, done, closes>>

DB_Prepare ==
    /\ Calling("db.go")
    /\ \E query \in Queries, dt \in Durations, ok \in BOOLEAN :
         LET k == Len(stmts) + 1
             s == IF ok THEN USqlStmt(k, query) ELSE NilV
             err == IF ok THEN NilV ELSE "err"
             call == CallP(d.db, "Prepare", query, <<s, err>>)
             o == [recv |-> PtrDB, name |-> "Prepare", query |-> query]
         IN  /\ ok => Room
             /\ IF err # NilV
                THEN /\ Did(o, <<call>>, <<NilV, err>>, dt)
                     /\ stmts' = stmts
                ELSE /\ stmts' = Append(stmts, [stmt |-> s, prepare |-> query,
                                                debug |-> d.debug, slow |-> d.slow])
                     /\ Did(o, <<call>>, <<PtrStmt(k), NilV>>, dt)
    /\ UNCHANGED <<variant, ip, d, txs, done, closes>>

(* src/unnamed/part_001 *)

\* l := log.New(os.Stdout, "[sql]", log.LstdFlags)
Logger == "[sql]"

V0_WrapperDB(db, debug) == [db |-> db, debug |-> debug, log |-> Logger]

V0_Tx_Commit ==
    /\ Calling("part_001")
    /\ \E i \in 1 .. Len(txs), dt \in Durations, err \in ErrOuts :
         LET t == txs[i]
             deferred == IF t.debug
                         THEN <<Println(t.log, <<"commit", DurationString(dt)>>)>>
                         ELSE << >>
         IN  /\ Did([recv |-> PtrTx(i), name |-> "Commit"],
                    <<Call0(t.tx, "Commit", err)>> \o deferred, err, dt)
             /\ done' = done \cup {t.tx}
    /\ UNCHANGED <<heap, closes>>

V0_Tx_Exec ==
    /\ Calling("part_001")
    /\ \E i \in 1 .. Len(txs), query \in Queries, args \in ArgLists,
          dt \in Durations, out \in ResultOuts :
         LET t == txs[i]
             deferred == IF t.debug
                         THEN <<Println(t.log, <<query, args, DurationString(dt)>>)>>
                         ELSE << >>
         IN  Did([recv |-> PtrTx(i), name |-> "Exec", query |-> query, args |-> args],
                 <<CallQ(t.tx, "Exec", query, args, out)>> \o deferred, out, dt)
    /\ UNCHANGED <<heap, done, closes>>

V0_Tx_Prepare ==
    /\ Calling("part_001")
    /\ \E i \in 1 .. Len(txs), query \in Queries, dt \in Durations, ok \in BOOLEAN :
         LET t == txs[i]
             k == Len(stmts) + 1
             s == IF ok THEN USqlStmt(k, query) ELSE NilV
             err == IF ok THEN NilV ELSE "err"
             call == CallP(t.tx, "Prepare", query, <<s, err>>)
             o == [recv |-> PtrTx(i), name |-> "Prepare", query |-> query]
         IN  /\ ok => Room
             /\ IF err # NilV
                THEN /\ Did(o, <<call>>, <<NilV, err>>, dt)
                     /\ stmts' = stmts
                ELSE /\ stmts' = Append(stmts, [log |-> t.log, stmt |-> s,
                                                debug |-> t.debug, prepare |-> query])
                     /\ Did(o, <<call>>, <<PtrStmt(k), NilV>>, dt)
    /\ UNCHANGED <<variant, ip, d, txs, done, closes>>

V0_Tx_Rollback ==
    /\ Calling("part_001")
    /\ \E i \in 1 .. Len(txs), dt \in Durations, err \in ErrOuts :
         LET t == txs[i]
             deferred == IF t.debug
                         THEN <<Println(t.log, <<"rollback", DurationString(dt)>>)>>
                         ELSE << >>
         IN  /\ Did([recv |-> PtrTx(i), name |-> "Rollback"],
                    <<Call0(t.tx, "Rollback", err)>> \o deferred, err, dt)
             /\ done' = done \cup {t.tx}
    /\ UNCHANGED <<heap, closes>>

V0_Tx_Stmt ==
    /\ Calling("part_001")
    /\ \E i \in 1 .. Len(txs), k \in 1 .. Len(stmts), dt \in Durations :
         LET t == txs[i]
             stmt == stmts[k]
             s == USqlTxStmt(t.tx, stmt.stmt)
         IN  /\ stmts' = [stmts EXCEPT ![k].stmt = s]
             /\ Did([recv |-> PtrTx(i), name |-> "Stmt", stmt |-> PtrStmt(k)],
                    <<CallA(t.tx, "Stmt", <<stmt.stmt>>, s)>>, PtrStmt(k), dt)
    /\ UNCHANGED <<variant, ip, d, txs, done, closes>>

V0_Tx_Query ==
    /\ Calling("part_001")
    /\ \E i \in 1 .. Len(txs), query \in Queries, args \in ArgLists,
          dt \in Durations, out \in RowsOuts :
         LET t == txs[i]
             deferred == IF t.debug
                         THEN <<Println(t.log, <<query, args, DurationString(dt)>>)>>
                         ELSE << >>
         IN  Did([recv |-> PtrTx(i), name |-> "Query", query |-> query, args |-> args],
                 <<CallQ(t.tx, "Query", query, args, out)>> \o deferred, out, dt)
    /\ UNCHANGED <<heap, done, closes>>

V0_Tx_QueryRow ==
    /\ Calling("part_001")
    /\ \E i \in 1 .. Len(txs), query \in Queries, args \in ArgLists,
          dt \in Durations, out \in RowOuts :
         LET t == txs[i]
             deferred == IF t.debug
                         THEN <<Println(t.log, <<query, args, DurationString(dt)>>)>>
                         ELSE << >>
         IN  Did([recv |-> PtrTx(i), name |-> "QueryRow", query |-> query, args |-> args],
                 <<CallQ(t.tx, "QueryRow", query, args, out)>> \o deferred, out, dt)
    /\ UNCHANGED <<heap, done, closes>>

V0_Stmt_Exec ==
    /\ Calling("part_001")
    /\ \E k \in 1 .. Len(stmts), args \in ArgLists, dt \in Durations,
          out \in ResultOuts :
         LET s == stmts[k]
             deferred == IF s.debug
                         THEN <<Println(s.log, <<s.prepare, args, DurationString(dt)>>)>>
                         ELSE << >>
         IN  Did([recv |-> PtrStmt(k), name |-> "Exec", args |-> args],
                 <<CallA(s.stmt, "Exec", args, out)>> \o deferred, out, dt)
    /\ UNCHANGED <<heap, done, closes>>

V0_Stmt_Query ==
    /\ Calling("part_001")
    /\ \E k \in 1 .. Len(stmts), args \in ArgLists, dt \in Durations,
          out \in RowsOuts :
         LET s == stmts[k]
             deferred == IF s.debug
                         THEN <<Println(s.log, <<s.prepare, args, DurationString(dt)>>)>>
                         ELSE << >>
         IN  Did([recv |-> PtrStmt(k), name |-> "Query", args |-> args],
                 <<CallA(s.stmt, "Query", args, out)>> \o deferred, out, dt)
    /\ UNCHANGED <<heap, done, closes>>

V0_Stmt_QueryRow ==
    /\ Calling("part_001")
    /\ \E k \in 1 .. Len(stmts), args \in ArgLists, dt \in Durations,
          out \in RowOuts :
         LET s == stmts[k]
             deferred == IF s.debug
                         THEN <<Println(s.log, <<s.prepare, args, DurationString(dt)>>)>>
                         ELSE << >>
         IN  Did([recv |-> PtrStmt(k), name |-> "QueryRow", args |-> args],
                 <<CallA(s.stmt, "QueryRow", args, out)>> \o deferred, out, dt)
    /\ UNCHANGED <<heap, done, closes>>

V0_DB_Exec ==
    /\ Calling("part_001")
    /\ \E query \in Queries, args \in ArgLists, dt \in Durations,
          out \in ResultOuts :
         LET deferred == IF d.debug
                         THEN <<Println(d.log, <<query, args, DurationString(dt)>>)>>
                         ELSE << >>
         IN  Did([recv |-> PtrDB, name |-> "Exec", query |-> query, args |-> args],
                 <<CallQ(d.db, "Exec", query, args, out)>> \o deferred, out, dt)
    /\ UNCHANGED <<heap, done, closes>>

V0_DB_Query ==
    /\ Calling("part_001")
    /\ \E query \in Queries, args \in ArgLists, dt \in Durations,
          out \in RowsOuts :
         LET deferred == IF d.debug
                         THEN <<Println(d.log, <<query, args, DurationString(dt)>>)>>
                         ELSE << >>
         IN  Did([recv |-> PtrDB, name |-> "Query", query |-> query, args |-> args],
                 <<CallQ(d.db, "Query", query, args, out)>> \o deferred, out, dt)
    /\ UNCHANGED <<heap, done, closes>>

V0_DB_QueryRow ==
    /\ Calling("part_001")
    /\ \E query \in Queries, args \in ArgLists, dt \in Durations,
          out \in RowOuts :
         LET deferred == IF d.debug
                         THEN <<Println(d.log, <<query, args, DurationString(dt)>>)>>
                         ELSE << >>
         IN  Did([recv |-> PtrDB, name |-> "QueryRow", query |-> query, args |-> args],
                 <<CallQ(d.db, "QueryRow", query, args, out)>> \o deferred, out, dt)
    /\ UNCHANGED <<heap, done, closes>>

V0_DB_Close ==
    /\ Calling("part_001")
    /\ closes < MaxClose
    /\ \E dt \in Durations, err \in ErrOuts :
         Did([recv |-> PtrDB, name |-> "Close"],
             <<Call0(d.db, "Close", err)>>, err, dt)
    /\ closes' = closes + 1
    /\ UNCHANGED <<heap, done>>

V0_DB_Begin ==
    /\ Calling("part_001")
    /\ \E dt \in Durations, ok \in BOOLEAN :
         LET i == Len(txs) + 1
             tx == IF ok THEN USqlTx(i) ELSE NilV
             err == IF ok THEN NilV ELSE "err"
             call == Call0(d.db, "Begin", <<tx, err>>)
             o == [recv |-> PtrDB, name |-> "Begin"]
         IN  /\ ok => Room
             /\ IF err # NilV
                THEN /\ Did(o, <<call>>, <<NilV, err>>, dt)
                     /\ txs' = txs
                ELSE \* the literal sets log and tx; debug keeps its zero value
                     /\ txs' = Append(txs, [log |-> d.log, tx |-> tx, debug |-> FALSE])
                     /\ Did(o, <<call>>, <<PtrTx(i), err>>, dt)
    /\ UNCHANGED <<variant, ip, d, stmts, done, closes>>

V0_DB_Prepare ==
    /\ Calling("part_001")
    /\ \E query \in Queries, dt \in Durations, ok \in BOOLEAN :
         LET k == Len(stmts) + 1
             s == IF ok THEN USqlStmt(k, query) ELSE NilV
             err == IF ok THEN NilV ELSE "err"
             call == CallP(d.db, "Prepare", query, <<s, err>>)
             o == [recv |-> PtrDB, name |-> "Prepare", query |-> query]
         IN  /\ ok => Room
             /\ IF err # NilV
                THEN /\ Did(o, <<call>>, <<NilV, err>>, dt)
                     /\ stmts' = stmts
                ELSE /\ stmts' = Append(stmts, [log |-> d.log, stmt |-> s,
                                                prepare |-> query, debug |-> d.debug])
                     /\ Did(o, <<call>>, <<PtrStmt(k), NilV>>, dt)
    /\ UNCHANGED <<variant, ip, d, txs, done, closes>>

-----------------------------------------------------------------------------
(* The caller (README, Usage): it takes the result of a call and goes on. *)

Caller_Continue ==
    /\ op # Idle
    /\ Did(Idle, << >>, NilV, 0)
    /\ UNCHANGED <<heap, done, closes>>

-----------------------------------------------------------------------------

Init ==
    /\ variant \in Variants
    /\ IF variant = "db.go"
       THEN /\ ip \in IPs
            /\ \E debug \in BOOLEAN, slow \in Slows : d = WrapperDB(Pool, debug, slow)
       ELSE /\ ip = ""
            /\ \E debug \in BOOLEAN : d = V0_WrapperDB(Pool, debug)
    /\ txs = << >>
    /\ stmts = << >>
    /\ done = {}
    /\ closes = 0
    /\ op = Idle
    /\ events = << >>
    /\ ret = NilV
    /\ elapsed = 0

Next ==
    \/ Tx_Commit
    \/ Tx_Exec
    \/ Tx_Prepare
    \/ Tx_Rollback
    \/ Tx_Stmt
    \/ Tx_Query
    \/ Tx_QueryRow
    \/ Stmt_Exec
    \/ Stmt_Query
    \/ Stmt_QueryRow
    \/ Stmt_Close
    \/ DB_Exec
    \/ DB_Query
    \/ DB_QueryRow
    \/ DB_Close
    \/ DB_Begin
    \/ DB_Prepare
    \/ V0_Tx_Commit
    \/ V0_Tx_Exec
    \/ V0_Tx_Prepare
    \/ V0_Tx_Rollback
    \/ V0_Tx_Stmt
    \/ V0_Tx_Query
    \/ V0_Tx_QueryRow
    \/ V0_Stmt_Exec
    \/ V0_Stmt_Query
    \/ V0_Stmt_QueryRow
    \/ V0_DB_Exec
    \/ V0_DB_Query
    \/ V0_DB_QueryRow
    \/ V0_DB_Close
    \/ V0_DB_Begin
    \/ V0_DB_Prepare
    \/ Caller_Continue

Spec == Init /\ [][Next]_vars

-----------------------------------------------------------------------------
(* What a state shows of the call that was made last. *)

Calls == SelectSeq(events, LAMBDA e : e.ev = "call")

Logs == SelectSeq(events, LAMBDA e : e.ev = "log")

QueryOps == {"Exec", "Query", "QueryRow"}

BoundaryOps == {"Commit", "Rollback"}

\* The wrapper object the method was called on.
Receiver ==
    CASE op.recv.kind = "db" -> d
      [] op.recv.kind = "tx" -> txs[op.recv.id]
      [] op.recv.kind = "stmt" -> stmts[op.recv.id]

\* The database/sql object that wrapper holds.
Underlying ==
    CASE op.recv.kind = "db" -> d.db
      [] op.recv.kind = "tx" -> txs[op.recv.id].tx
      [] op.recv.kind = "stmt" -> stmts[op.recv.id].stmt

\* The gating rule of db.go on the receiver's configuration.
Gate == Receiver.debug \/ elapsed >= Receiver.slow

\* The query text a log record carries.
LoggedText(e) == IF variant = "db.go" THEN e.fields["sql"] ELSE e.line[1]

-----------------------------------------------------------------------------
(* Claims. *)

\* C1: Exec on a DB, a Tx or a Stmt calls the underlying Exec exactly once,
\* also when it fails, with the caller's query text and arguments as given,
\* and returns the pair the underlying call returned.
C1_ExecForwardsOnce ==
    op.name = "Exec" =>
        /\ Len(Calls) = 1
        /\ Calls[1].name = "Exec"
        /\ Calls[1].target = Underlying
        /\ Calls[1].args = op.args
        /\ op.recv.kind # "stmt" => Calls[1].query = op.query
        /\ ret = Calls[1].out

C1_Witness ==
    /\ op.name = "Exec"
    /\ op.recv.kind = "tx"
    /\ op.args = <<7>>
    /\ ret[2] = "err"

\* C2: in db.go every Exec, Query, QueryRow, Commit and Rollback writes exactly
\* one log record when the receiver's debug flag is set or the elapsed time
\* is at least its slow threshold, and none otherwise.
C2_LoggedIffDebugOrSlow ==
    (variant = "db.go" /\ op.name \in QueryOps \cup BoundaryOps) =>
        Len(Logs) = IF Gate THEN 1 ELSE 0

C2_Witness ==
    /\ variant = "db.go"
    /\ op.name = "Commit"
    /\ ~Receiver.debug
    /\ elapsed = Receiver.slow
    /\ elapsed > 0
    /\ Len(Logs) = 1

\* C3: every Tx that Begin returned carries the debug flag (and, in db.go, the
\* slow threshold) of the DB it was begun on, so a Tx begun on a DB with
\* debug set logs each of its Exec, Query, QueryRow, Commit and Rollback.
C3_TxCarriesHandleConfig ==
    /\ \A i \in 1 .. Len(txs) :
         /\ txs[i].debug = d.debug
         /\ variant = "db.go" => txs[i].slow = d.slow
    /\ (op.name \in QueryOps \cup BoundaryOps /\ op.recv.kind = "tx" /\ d.debug) =>
         Len(Logs) = 1

\* C4: a Stmt's stored text is the text its statement was prepared with, also
\* after Tx.Stmt re-bound it, and every log record of its Exec, Query and
\* QueryRow carries that text.
C4_StmtKeepsPreparedText ==
    /\ \A k \in 1 .. Len(stmts) : stmts[k].prepare = stmts[k].stmt.query
    /\ (op.name \in QueryOps /\ op.recv.kind = "stmt") =>
         \A n \in 1 .. Len(Logs) : LoggedText(Logs[n]) = Underlying.query

C4_Witness ==
    /\ op.name = "Exec"
    /\ op.recv.kind = "stmt"
    /\ Underlying.boundTo # NilV
    /\ Receiver.prepare = "SELECT 2"
    /\ Len(Logs) = 1

\* C5: in db.go a Query the underlying client fails returns that error as it
\* is, and the log record is written by the same rule and with the same
\* fields as for a call that succeeds, after the underlying call returned.
C5_QueryErrorStillLogged ==
    (variant = "db.go" /\ op.name = "Query" /\ Len(Calls) > 0
        /\ Calls[1].out[2] # NilV) =>
        /\ ret = Calls[1].out
        /\ Len(Logs) = IF Gate THEN 1 ELSE 0
        /\ events = <<Calls[1]>> \o Logs
        /\ \A n \in 1 .. Len(Logs) :
             /\ DOMAIN Logs[n].fields = {"use-time", "ip", "sql", "args", "name"}
             /\ Logs[n].fields["use-time"] = DurationString(elapsed)
             /\ Logs[n].fields["args"] = op.args
             /\ Logs[n].fields["sql"] =
                    IF op.recv.kind = "stmt" THEN Receiver.prepare ELSE op.query

C5_Witness ==
    /\ variant = "db.go"
    /\ op.name = "Query"
    /\ op.recv.kind = "db"
    /\ ret[2] = "err"
    /\ ~d.debug
    /\ Len(Logs) = 1

\* C6: Prepare on a DB or a Tx writes no log record; when the underlying
\* prepare fails it returns that error with no Stmt and creates none; when it
\* succeeds it returns one new Stmt that holds the underlying statement,
\* the query text and the receiver's debug flag and slow threshold.
C6_PrepareStep ==
    op'.name = "Prepare" =>
        /\ Logs' = << >>
        /\ Len(Calls') = 1
        /\ Calls'[1].name = "Prepare"
        /\ Calls'[1].query = op'.query
        /\ IF Calls'[1].out[2] # NilV
           THEN /\ stmts' = stmts
                /\ ret'[1] = NilV
                /\ ret'[2] = Calls'[1].out[2]
           ELSE /\ ret' = <<PtrStmt(Len(stmts) + 1), NilV>>
                /\ Len(stmts') = Len(stmts) + 1
                /\ SubSeq(stmts', 1, Len(stmts)) = stmts
                /\ LET s == stmts'[Len(stmts')]
                       from == Receiver'
                   IN  /\ s.stmt = Calls'[1].out[1]
                       /\ s.prepare = op'.query
                       /\ s.debug = from.debug
                       /\ variant = "db.go" => s.slow = from.slow

C6_PrepareNeverLogs == [][C6_PrepareStep]_vars

C6_Witness ==
    /\ op.name = "Prepare"
    /\ op.recv.kind = "tx"
    /\ ret[2] = "err"
    /\ d.debug
    /\ Len(stmts) = 1

\* C7, as claimed: Begin is timed and writes a log record when the DB's
\* debug flag is set or the elapsed time is at least the slow threshold.
C7_BeginIsLogged ==
    (variant = "db.go" /\ op.name = "Begin") =>
        Len(Logs) = IF Gate THEN 1 ELSE 0

\* C7, amended: Begin is not instrumented. It calls the underlying Begin
\* exactly once and writes no log record, whatever the debug flag and the
\* elapsed time; it returns the underlying error as it is, with no Tx when
\* the underlying Begin failed.
C7_BeginIsNotLogged ==
    op.name = "Begin" =>
        /\ Logs = << >>
        /\ Len(Calls) = 1
        /\ Calls[1].name = "Begin"
        /\ Calls[1].target = d.db
        /\ ret[2] = Calls[1].out[2]
        /\ ret[2] # NilV => ret[1] = NilV

C7_Witness ==
    /\ variant = "db.go"
    /\ op.name = "Begin"
    /\ d.debug
    /\ elapsed >= d.slow
    /\ ret[2] = NilV

\* C8: in db.go a log record of Commit or Rollback holds the elapsed duration
\* and no query text and no arguments; a log record of Exec, Query or
\* QueryRow holds the query text, the arguments and the elapsed duration.
C8_LogFields ==
    variant = "db.go" =>
        \A n \in 1 .. Len(Logs) :
            LET f == Logs[n].fields
            IN  /\ op.name \in BoundaryOps =>
                     /\ "use-time" \in DOMAIN f
                     /\ f["use-time"] = DurationString(elapsed)
                     /\ "sql" \notin DOMAIN f
                     /\ "args" \notin DOMAIN f
                /\ op.name \in QueryOps =>
                     /\ {"use-time", "sql", "args"} \subseteq DOMAIN f
                     /\ f["use-time"] = DurationString(elapsed)
                     /\ f["args"] = op.args
                     /\ f["sql"] = IF op.recv.kind = "stmt"
                                   THEN Receiver.prepare ELSE op.query

C8_Witness ==
    /\ variant = "db.go"
    /\ op.name = "Rollback"
    /\ Len(Logs) = 1
    /\ elapsed > 0

\* C9: every Close on the DB calls the underlying Close exactly once and
\* returns its error as it is, with no log record, also when the pool was
\* closed before.
C9_CloseDelegates ==
    (op.name = "Close" /\ op.recv.kind = "db") =>
        /\ Len(events) = 1
        /\ events[1] = Call0(d.db, "Close", ret)

C9_Witness ==
    /\ op.name = "Close"
    /\ op.recv.kind = "db"
    /\ closes = 2
    /\ ret = "err"
    /\ d.debug

\* C10: Tx.Stmt(s) writes no log record and creates no wrapper: it puts the
\* statement the underlying Tx.Stmt returned into s and returns s, leaving
\* s's query text, debug flag and slow threshold and every other Stmt as
\* they were. From then on s stays bound, and every call on s goes to the
\* statement s holds.
C10_StmtStep ==
    /\ op'.name = "Stmt" =>
         LET k == op'.stmt.id
             i == op'.recv.id
         IN  /\ Logs' = << >>
             /\ ret' = op'.stmt
             /\ txs' = txs
             /\ Len(stmts') = Len(stmts)
             /\ Len(Calls') = 1
             /\ Calls'[1].target = txs[i].tx
             /\ Calls'[1].args = <<stmts[k].stmt>>
             /\ stmts'[k].stmt = Calls'[1].out
             /\ stmts'[k].stmt.boundTo = txs[i].tx
             /\ stmts'[k].prepare = stmts[k].prepare
             /\ stmts'[k].debug = stmts[k].debug
             /\ variant = "db.go" => stmts'[k].slow = stmts[k].slow
             /\ \A j \in 1 .. Len(stmts) : j # k => stmts'[j] = stmts[j]
    /\ \A k \in 1 .. Len(stmts) :
         stmts[k].stmt.boundTo # NilV =>
             /\ k <= Len(stmts')
             /\ stmts'[k].stmt.boundTo # NilV
    /\ (op'.name # "Stmt" /\ op'.name # "idle" /\ op'.recv.kind = "stmt") =>
         /\ Len(Calls') = 1
         /\ Calls'[1].target = stmts[op'.recv.id].stmt
         /\ stmts' = stmts

C10_StmtBindsInPlace == [][C10_StmtStep]_vars

C10_Witness ==
    /\ op.name = "Exec"
    /\ op.recv.kind = "stmt"
    /\ Len(txs) = 1
    /\ Underlying.boundTo = txs[1].tx
    /\ Underlying.boundTo \in done
    /\ Calls[1].target = Underlying

====
